---- MODULE Spec2Model ----
(***************************************************************************)
(* Model of backend/main.py: the virtual -> physical address translator.   *)
(* compute_bits, normalize_hex, hex_to_bin_fixed and translate_one are     *)
(* operators computed as the Python code computes them (binary strings are *)
(* sequences of 0/1, hexadecimal text is a sequence of characters); the    *)
(* upload handler is a state machine over its position: compute_bits,      *)
(* dense page table, one translate_one per address, response.              *)
(***************************************************************************)
EXTENDS Integers, Sequences, FiniteSets, TLC

VARIABLES
    mem_phys,       \* parsed['memoria_fisica_bytes']
    mem_virt,       \* parsed['memoria_virtual_bytes']
    page_size,      \* parsed['tamanio_pagina_bytes']
    parsed_table,   \* parsed['page_table']: dict index -> frame or None
    virtual_addrs,  \* parsed['virtual_addrs']: list of address strings
    pc,             \* position of the upload handler
    computed,       \* the dict returned by compute_bits
    page_table,     \* the dense page table upload builds
    results         \* the list upload appends to

vars == <<mem_phys, mem_virt, page_size, parsed_table, virtual_addrs,
          pc, computed, page_table, results>>

----------------------------------------------------------------------------
(* Bounds of the model *)

\* upload batches: byte sizes 0..MaxBatchSize, at most MaxAddrs addresses
MaxBatchSize == 2
MaxAddrs == 2
\* single translations: byte sizes 0..MaxSize, addresses 0..MaxAddr
MaxSize == 4
MaxAddr == 7
\* parsed page table: indices and frames 0..MaxEntry
MaxEntry == 1
\* compute_bits alone: byte sizes 0..MaxBitsSize
MaxBitsSize == 32

----------------------------------------------------------------------------
(* Python values *)

\* Python's None as a page-table value (frames are >= 0)
None == -1

\* computed before compute_bits has returned
NoComputed == [none |-> TRUE]

Max(a, b) == IF a >= b THEN a ELSE b
Min(a, b) == IF a <= b THEN a ELSE b

\* s[:k] of a Python string
SliceTo(s, k) ==
    LET n == Len(s)
        e == IF k < 0 THEN Max(n + k, 0) ELSE Min(k, n)
    IN  SubSeq(s, 1, e)

\* s[k:] of a Python string
SliceFrom(s, k) ==
    LET n == Len(s)
        b == IF k < 0 THEN Max(n + k, 0) ELSE Min(k, n)
    IN  SubSeq(s, b + 1, n)

\* bin(val)[2:] for val >= 0, most significant bit first
RECURSIVE Bin(_)
Bin(val) == IF val < 2 THEN <<val>> ELSE Append(Bin(val \div 2), val % 2)

\* str.zfill(width) of a string of binary digits
zfill(s, width) ==
    IF Len(s) >= width THEN s ELSE [i \in 1..(width - Len(s)) |-> 0] \o s

\* int(s, 2) of a non-empty string of binary digits (the empty string raises)
RECURSIVE int2(_)
int2(s) == IF s = <<>> THEN 0 ELSE 2 * int2(SubSeq(s, 1, Len(s) - 1)) + s[Len(s)]

\* the value of one hexadecimal character
HexValue ==
    [c \in {"0","1","2","3","4","5","6","7","8","9"} |->
        CASE c = "0" -> 0 [] c = "1" -> 1 [] c = "2" -> 2 [] c = "3" -> 3
          [] c = "4" -> 4 [] c = "5" -> 5 [] c = "6" -> 6 [] c = "7" -> 7
          [] c = "8" -> 8 [] c = "9" -> 9]
    @@ [c \in {"a","b","c","d","e","f"} |->
        CASE c = "a" -> 10 [] c = "b" -> 11 [] c = "c" -> 12
          [] c = "d" -> 13 [] c = "e" -> 14 [] c = "f" -> 15]
    @@ [c \in {"A","B","C","D","E","F"} |->
        CASE c = "A" -> 10 [] c = "B" -> 11 [] c = "C" -> 12
          [] c = "D" -> 13 [] c = "E" -> 14 [] c = "F" -> 15]

\* whether int(s, 16) returns rather than raises ValueError
IsHex(s) == s # <<>> /\ \A i \in 1..Len(s) : s[i] \in DOMAIN HexValue

\* int(s, 16) of hexadecimal text
RECURSIVE int16(_)
int16(s) ==
    IF s = <<>> THEN 0
    ELSE 16 * int16(SubSeq(s, 1, Len(s) - 1)) + HexValue[s[Len(s)]]

\* hex(n)[2:].upper()
HexDigit == <<"0","1","2","3","4","5","6","7","8","9","A","B","C","D","E","F">>
RECURSIVE HexUpper(_)
HexUpper(n) ==
    IF n < 16 THEN <<HexDigit[n + 1]>>
    ELSE Append(HexUpper(n \div 16), HexDigit[(n % 16) + 1])

\* n & m for n, m >= 0
RECURSIVE BitAnd(_, _)
BitAnd(n, m) ==
    IF n = 0 \/ m = 0 THEN 0
    ELSE 2 * BitAnd(n \div 2, m \div 2) + (IF n % 2 = 1 /\ m % 2 = 1 THEN 1 ELSE 0)

\* largest k with 2^k <= n, for n >= 1
RECURSIVE FloorLog2(_)
FloorLog2(n) == IF n < 2 THEN 0 ELSE 1 + FloorLog2(n \div 2)

\* RoundLog2 with the logarithm truncated instead of rounded
RoundLog2_floor(n) == FloorLog2(n)

\* int(round(math.log2(n))) for n >= 1: log2(n) is never half-way between two
\* integers, and it is nearer to k+1 than to k exactly when n*n >= 2^(2k+1)
RoundLog2(n) == (FloorLog2(n * n) + 1) \div 2

\* CeilLog2 with the logarithm truncated instead of rounded up
CeilLog2_floor(n) == FloorLog2(n)

\* int(math.ceil(math.log2(n))) for n >= 1
RECURSIVE CeilLog2(_)
CeilLog2(n) == IF n < 2 THEN 0 ELSE 1 + CeilLog2((n + 1) \div 2)

----------------------------------------------------------------------------
(* compute_bits *)

\* is_power_of_two without the single-bit test
is_power_of_two_positive(n) == n > 0

is_power_of_two(n) == n > 0 /\ BitAnd(n, n - 1) = 0

\* compute_bits raises: the ValueError of line 120, or math.log2(0)
compute_bits_raises(mv, mp, ps) == ~is_power_of_two(ps) \/ mv <= 0

\* compute_bits with the page count taken from the physical size
compute_bits_phys_pages(mv, mp, ps) ==
    LET offset_bits == RoundLog2(ps)
        virtual_address_bits == RoundLog2(mv)
        num_frames == mp \div ps
    IN  [offset_bits |-> offset_bits,
         virtual_address_bits |-> virtual_address_bits,
         page_number_bits |-> virtual_address_bits - offset_bits,
         num_pages_virtual |-> mp \div ps,
         num_frames |-> num_frames,
         frame_bits |-> IF num_frames > 1 THEN CeilLog2(num_frames) ELSE 1]

compute_bits(mv, mp, ps) ==
    LET offset_bits == RoundLog2(ps)
        virtual_address_bits == RoundLog2(mv)
        num_frames == mp \div ps
    IN  [offset_bits |-> offset_bits,
         virtual_address_bits |-> virtual_address_bits,
         page_number_bits |-> virtual_address_bits - offset_bits,
         num_pages_virtual |-> mv \div ps,
         num_frames |-> num_frames,
         frame_bits |-> IF num_frames > 1 THEN CeilLog2(num_frames) ELSE 1]

----------------------------------------------------------------------------
(* translate_one *)

normalize_hex(h) ==
    IF Len(h) >= 2 /\ h[1] = "0" /\ h[2] \in {"x", "X"}
    THEN SubSeq(h, 3, Len(h)) ELSE h

hex_to_bin_fixed(hex_str, width) == zfill(Bin(int16(hex_str)), width)

\* str.upper() of the characters of an address
Upper(s) ==
    [i \in 1..Len(s) |->
        IF s[i] \in DOMAIN HexValue THEN HexDigit[HexValue[s[i]] + 1]
        ELSE IF s[i] = "x" THEN "X" ELSE IF s[i] = "g" THEN "G" ELSE s[i]]

\* dict.get(k, None)
Get(d, k) == IF k \in DOMAIN d THEN d[k] ELSE None

\* translate_one with the frame check off by one (frame > num_frames)
translate_one_frame_gt(virtual_hex, comp, table) ==
    LET vhex == normalize_hex(virtual_hex)
        vabits == comp.virtual_address_bits
    IN
    IF ~IsHex(vhex)
    THEN [raised |-> <<"Direccion virtual invalida", virtual_hex>>]
    ELSE
    LET vbin == hex_to_bin_fixed(vhex, vabits)
        page_bits == comp.page_number_bits
        frame_bits == comp.frame_bits
        page_bin == SliceTo(vbin, page_bits)
        offset_bin == SliceFrom(vbin, page_bits)
    IN
    IF page_bin = <<>>
    THEN [raised |-> <<"invalid literal for int() with base 2", page_bin>>]
    ELSE
    LET page_index == int2(page_bin)
        frame == Get(table, page_index)
    IN
    IF page_index >= comp.num_pages_virtual
    THEN [error |-> <<"Direccion excede memoria virtual", page_index>>]
    ELSE IF frame = None
    THEN [virtual_hex |-> <<"0", "x">> \o Upper(vhex),
          virtual_bin |-> vbin,
          page_index |-> page_index,
          page_bin |-> page_bin,
          offset_bin |-> offset_bin,
          page_fault |-> TRUE]
    ELSE IF frame > comp.num_frames
    THEN [error |-> <<"Frame number exceeds physical frames", frame, comp.num_frames>>]
    ELSE
    LET frame_bin == zfill(Bin(frame), frame_bits)
        physical_bin == frame_bin \o offset_bin
        pad == (4 - (Len(physical_bin) % 4)) % 4
        physical_bin_padded == [i \in 1..pad |-> 0] \o physical_bin
    IN  [virtual_hex |-> <<"0", "x">> \o Upper(vhex),
         virtual_bin |-> vbin,
         page_index |-> page_index,
         page_bin |-> page_bin,
         offset_bin |-> offset_bin,
         frame |-> frame,
         frame_bin |-> frame_bin,
         physical_bin |-> physical_bin,
         physical_hex |-> <<"0", "x">> \o HexUpper(int2(physical_bin_padded)),
         page_fault |-> FALSE]

\* The value translate_one returns, or [raised |-> message] when it raises.
translate_one(virtual_hex, comp, table) ==
    LET vhex == normalize_hex(virtual_hex)
        vabits == comp.virtual_address_bits
    IN
    IF ~IsHex(vhex)
    THEN [raised |-> <<"Direccion virtual invalida", virtual_hex>>]
    ELSE
    LET vbin == hex_to_bin_fixed(vhex, vabits)
        page_bits == comp.page_number_bits
        frame_bits == comp.frame_bits
        page_bin == SliceTo(vbin, page_bits)
        offset_bin == SliceFrom(vbin, page_bits)
    IN
    IF page_bin = <<>>
    THEN [raised |-> <<"invalid literal for int() with base 2", page_bin>>]
    ELSE
    LET page_index == int2(page_bin)
        frame == Get(table, page_index)
    IN
    IF page_index >= comp.num_pages_virtual
    THEN [error |-> <<"Direccion excede memoria virtual", page_index>>]
    ELSE IF frame = None
    THEN [virtual_hex |-> <<"0", "x">> \o Upper(vhex),
          virtual_bin |-> vbin,
          page_index |-> page_index,
          page_bin |-> page_bin,
          offset_bin |-> offset_bin,
          page_fault |-> TRUE]
    ELSE IF frame >= comp.num_frames
    THEN [error |-> <<"Frame number exceeds physical frames", frame, comp.num_frames>>]
    ELSE
    LET frame_bin == zfill(Bin(frame), frame_bits)
        physical_bin == frame_bin \o offset_bin
        pad == (4 - (Len(physical_bin) % 4)) % 4
        physical_bin_padded == [i \in 1..pad |-> 0] \o physical_bin
    IN  [virtual_hex |-> <<"0", "x">> \o Upper(vhex),
         virtual_bin |-> vbin,
         page_index |-> page_index,
         page_bin |-> page_bin,
         offset_bin |-> offset_bin,
         frame |-> frame,
         frame_bin |-> frame_bin,
         physical_bin |-> physical_bin,
         physical_hex |-> <<"0", "x">> \o HexUpper(int2(physical_bin_padded)),
         page_fault |-> FALSE]

\* the body of upload's loop: translate_one under try/except
translate_entry(v, comp, table) ==
    LET res == translate_one(v, comp, table)
    IN  IF "raised" \in DOMAIN res
        THEN [error |-> res.raised, virtual |-> v]
        ELSE res

\* dense_table with frame 0 as the default of an index that is not listed
dense_table_zero(comp, sparse) ==
    [i \in 0..(comp.num_pages_virtual - 1) |->
        IF i \in DOMAIN sparse THEN sparse[i] ELSE 0]

\* the dense page table of upload
dense_table(comp, sparse) ==
    [i \in 0..(comp.num_pages_virtual - 1) |-> Get(sparse, i)]

----------------------------------------------------------------------------
(* Inputs *)

\* address lines that are no hexadecimal number: a non-hexadecimal letter, with
\* and without the 0x prefix, and a bare prefix
Malformed == {<<"G">>, <<"0", "x", "G">>, <<"0", "x">>}

\* address lines of a single translation: the numbers 0..maxval in hexadecimal,
\* with and without the 0x prefix, and the malformed lines
Addresses(maxval) ==
    {HexUpper(a) : a \in 0..maxval}
        \cup {<<"0", "x">> \o HexUpper(a) : a \in 0..maxval}
        \cup Malformed

\* address lines of a batch: in range, out of range and malformed for the
\* widths the batch sizes give
BatchAddresses == {<<"0">>, <<"0", "x", "1">>, <<"2">>, <<"G">>}

RECURSIVE Lists(_, _)
Lists(S, n) ==
    IF n = 0 THEN {<<>>}
    ELSE LET shorter == Lists(S, n - 1)
         IN  shorter \cup {Append(l, a) : l \in {t \in shorter : Len(t) = n - 1}, a \in S}

\* parsed page tables: some indices listed, each with a frame or None (X / empty)
ParsedTables ==
    UNION {[D -> {None} \cup 0..MaxEntry] : D \in SUBSET (0..MaxEntry)}

----------------------------------------------------------------------------
(* The upload handler *)

InitCommon ==
    /\ pc = "compute"
    /\ computed = NoComputed
    /\ page_table = <<>>
    /\ results = <<>>

\* a batch of addresses
Init ==
    /\ mem_phys \in 0..MaxBatchSize
    /\ mem_virt \in 0..MaxBatchSize
    /\ page_size \in 0..MaxBatchSize
    /\ parsed_table \in ParsedTables
    /\ virtual_addrs \in Lists(BatchAddresses, MaxAddrs)
    /\ InitCommon

\* one address
InitTranslate ==
    /\ mem_phys \in 0..MaxSize
    /\ mem_virt \in 0..MaxSize
    /\ page_size \in 0..MaxSize
    /\ parsed_table \in ParsedTables
    /\ virtual_addrs \in {<<a>> : a \in Addresses(MaxAddr)}
    /\ InitCommon

\* sizes only
InitBits ==
    /\ mem_phys \in 0..MaxBitsSize
    /\ mem_virt \in 0..MaxBitsSize
    /\ page_size \in 0..MaxBitsSize
    /\ parsed_table = <<>>
    /\ virtual_addrs = <<>>
    /\ InitCommon

\* compute_bits raises: upload answers HTTP 400
UploadReject ==
    /\ pc = "compute"
    /\ compute_bits_raises(mem_virt, mem_phys, page_size)
    /\ pc' = "http400"
    /\ UNCHANGED <<mem_phys, mem_virt, page_size, parsed_table, virtual_addrs,
                   computed, page_table, results>>

\* compute_bits returns
UploadCompute ==
    /\ pc = "compute"
    /\ ~compute_bits_raises(mem_virt, mem_phys, page_size)
    /\ computed' = compute_bits(mem_virt, mem_phys, page_size)
    /\ pc' = "densify"
    /\ UNCHANGED <<mem_phys, mem_virt, page_size, parsed_table, virtual_addrs,
                   page_table, results>>

\* the loop that fills page_table
UploadDensify ==
    /\ pc = "densify"
    /\ page_table' = dense_table(computed, parsed_table)
    /\ pc' = "translate"
    /\ UNCHANGED <<mem_phys, mem_virt, page_size, parsed_table, virtual_addrs,
                   computed, results>>

\* UploadTranslate without the try/except: an address translate_one raises on
\* ends the loop
UploadTranslate_abort ==
    /\ pc = "translate"
    /\ Len(results) < Len(virtual_addrs)
    /\ LET res == translate_one(virtual_addrs[Len(results) + 1], computed, page_table)
       IN  IF "raised" \in DOMAIN res
           THEN pc' = "done" /\ results' = results
           ELSE pc' = pc /\ results' = Append(results, res)
    /\ UNCHANGED <<mem_phys, mem_virt, page_size, parsed_table, virtual_addrs,
                   computed, page_table>>

\* one iteration of the loop over parsed['virtual_addrs']
UploadTranslate ==
    /\ pc = "translate"
    /\ Len(results) < Len(virtual_addrs)
    /\ results' = Append(results,
                    translate_entry(virtual_addrs[Len(results) + 1], computed, page_table))
    /\ UNCHANGED <<mem_phys, mem_virt, page_size, parsed_table, virtual_addrs,
                   pc, computed, page_table>>

\* the loop is over: the JSON response
UploadRespond ==
    /\ pc = "translate"
    /\ Len(results) = Len(virtual_addrs)
    /\ pc' = "done"
    /\ UNCHANGED <<mem_phys, mem_virt, page_size, parsed_table, virtual_addrs,
                   computed, page_table, results>>

Next ==
    \/ UploadReject
    \/ UploadCompute
    \/ UploadDensify
    \/ UploadTranslate
    \/ UploadRespond

NextBits ==
    \/ UploadReject
    \/ UploadCompute

Spec == Init /\ [][Next]_vars
SpecTranslate == InitTranslate /\ [][Next]_vars
SpecBits == InitBits /\ [][NextBits]_vars

----------------------------------------------------------------------------
(* What the properties speak about *)

\* the classification of one entry of the result list
Kind(r) ==
    IF "error" \in DOMAIN r THEN "error"
    ELSE IF r.page_fault THEN "page_fault" ELSE "success"

\* the entry upload writes when translate_one raised
Raised(r) == "error" \in DOMAIN r /\ "virtual" \in DOMAIN r

\* 2^k
RECURSIVE Pow2(_)
Pow2(k) == IF k <= 0 THEN 1 ELSE 2 * Pow2(k - 1)

\* n is 2^k for some k >= 0
IsPow2(n) == n >= 1 /\ \E k \in 0..FloorLog2(n) : n = Pow2(k)

\* the i-th address line is a hexadecimal number
Parses(i) == IsHex(normalize_hex(virtual_addrs[i]))

\* the number the i-th address line denotes
AddrValue(i) == int16(normalize_hex(virtual_addrs[i]))

\* the i-th address is below 2^virtual_address_bits
InRange(i) == Parses(i) /\ AddrValue(i) < Pow2(computed.virtual_address_bits)

\* the page the i-th address lies in: address div page size
PageOf(i) == AddrValue(i) \div page_size

\* the i-th address is in range and its page is an index of the dense table
InTable(i) == InRange(i) /\ PageOf(i) < computed.num_pages_virtual

\* the number the hexadecimal text of a result denotes
PhysicalValue(r) == int16(SliceFrom(r.physical_hex, 2))

Translated == 1..Len(results)

----------------------------------------------------------------------------
(* C1 *)

\* C1: for every accepted configuration whose page size is a power of two not
\* larger than the virtual size (equal to it included), an address A below
\* 2^virtual_address_bits whose page is mapped to a frame F < frameCount is
\* translated to a success result with physical address F * pageBytes + A mod pageBytes.
C1_RoundTrip ==
    \A i \in Translated :
        ( /\ page_size <= mem_virt
          /\ InTable(i)
          /\ Get(parsed_table, PageOf(i)) # None
          /\ Get(parsed_table, PageOf(i)) < mem_phys \div page_size )
        => /\ Kind(results[i]) = "success"
           /\ PhysicalValue(results[i]) =
                Get(parsed_table, PageOf(i)) * page_size + (AddrValue(i) % page_size)

----------------------------------------------------------------------------
(* C2 *)

\* C2: the address 2^virtual_address_bits - 1 is not rejected as out of range,
\* and every address whose value is >= 2^virtual_address_bits yields an error
\* entry, never a success result or a page-fault result.
C2_Boundary ==
    \A i \in Translated :
        /\ ( /\ InTable(i)
             /\ AddrValue(i) = Pow2(computed.virtual_address_bits) - 1 )
           => ~( /\ Kind(results[i]) = "error"
                 /\ results[i].error[1] = "Direccion excede memoria virtual" )
        /\ ( /\ Parses(i)
             /\ AddrValue(i) >= Pow2(computed.virtual_address_bits) )
           => Kind(results[i]) = "error"

----------------------------------------------------------------------------
(* C3 *)

----------------------------------------------------------------------------
(* C4 *)

\* the i-th address is in range and its page is mapped to a frame >= frameCount
BadFrame(i) ==
    /\ InTable(i)
    /\ Get(parsed_table, PageOf(i)) # None
    /\ Get(parsed_table, PageOf(i)) >= mem_phys \div page_size

----------------------------------------------------------------------------
(* C5 *)

----------------------------------------------------------------------------
(* C6 *)

\* C6: for a power-of-two page size P and a power-of-two virtual size V > P the
\* widths satisfy offset_bits + page_number_bits = virtual_address_bits and
\* 2^page_number_bits = V / P = num_pages_virtual.
C6_WidthsAddUp ==
    ( /\ computed # NoComputed
      /\ IsPow2(page_size) /\ IsPow2(mem_virt)
      /\ mem_virt > page_size )
    => /\ computed.offset_bits + computed.page_number_bits = computed.virtual_address_bits
       /\ Pow2(computed.offset_bits) = page_size
       /\ Pow2(computed.virtual_address_bits) = mem_virt
       /\ computed.page_number_bits >= 1
       /\ Pow2(computed.page_number_bits) * page_size = mem_virt
       /\ Pow2(computed.page_number_bits) = computed.num_pages_virtual

\* widths were computed for 16 bytes of virtual memory in pages of 4
C6_Witness ==
    /\ computed # NoComputed
    /\ mem_virt = 16 /\ page_size = 4
    /\ computed.page_number_bits = 2

----------------------------------------------------------------------------
(* C7 *)

\* C7 as claimed: frame_bits is 0 when frameCount is 0 or 1, and
\* ceil(log2(frameCount)) when frameCount > 1.
C7_FrameBitsZero ==
    computed # NoComputed
    => LET n == mem_phys \div page_size
           k == computed.frame_bits
       IN  /\ n <= 1 => k = 0
           /\ n > 1 => (Pow2(k) >= n /\ Pow2(k - 1) < n)

\* C7 amended: frame_bits is 1 when frameCount is 0 or 1, and
\* ceil(log2(frameCount)), the least k with 2^k >= frameCount, when frameCount > 1.
C7_FrameBitsOne ==
    computed # NoComputed
    => LET n == mem_phys \div page_size
           k == computed.frame_bits
       IN  /\ computed.num_frames = n
           /\ n <= 1 => k = 1
           /\ n > 1 => (k >= 1 /\ Pow2(k) >= n /\ Pow2(k - 1) < n)

\* widths were computed for a physical memory of exactly one frame
C7_Witness ==
    /\ computed # NoComputed
    /\ computed.num_frames = 1
    /\ computed.frame_bits = 1

----------------------------------------------------------------------------
(* C8 *)

\* C8: when the page size is a power of two larger than the virtual size, the
\* batch is rejected before any address is translated, and no widths with a
\* negative page_number_bits are returned.
C8_PageLargerRejected ==
    /\ (IsPow2(page_size) /\ page_size > mem_virt /\ pc # "compute")
        => (pc = "http400" /\ computed = NoComputed /\ results = <<>>)
    /\ computed # NoComputed => computed.page_number_bits >= 0

----------------------------------------------------------------------------
(* C9 *)

\* C9: when the page size is not a positive power of two, compute_bits raises
\* and upload answers HTTP 400: no widths, no dense table, and no result for
\* any address.
C9_NotPowerOfTwoRejected ==
    ~IsPow2(page_size)
    => /\ pc \in {"compute", "http400"}
       /\ computed = NoComputed
       /\ page_table = <<>>
       /\ results = <<>>

\* a batch with addresses and a page size of 3 bytes was rejected
C9_Witness ==
    /\ pc = "http400"
    /\ page_size = 3
    /\ mem_virt > 0
    /\ virtual_addrs # <<>>
    /\ results = <<>>

----------------------------------------------------------------------------
(* C10 *)

\* C10 as claimed: virtual_address_bits is floor(log2(V)), the largest k with
\* 2^k <= V.
C10_Truncates ==
    computed # NoComputed
    => LET k == computed.virtual_address_bits
       IN  Pow2(k) <= mem_virt /\ mem_virt < Pow2(k + 1)

\* C10 amended: virtual_address_bits is log2(V) rounded to the nearest integer,
\* the k with 2^(2k-1) < V^2 < 2^(2k+1); it is above floor(log2(V)) exactly
\* when V^2 >= 2^(2*floor(log2(V))+1).
C10_RoundsToNearest ==
    computed # NoComputed
    => LET k == computed.virtual_address_bits
           f == FloorLog2(mem_virt)
           sq == mem_virt * mem_virt
       IN  /\ k >= 0
           /\ sq < Pow2(2 * k + 1)
           /\ 2 * sq > Pow2(2 * k)
           /\ k = (IF sq >= Pow2(2 * f + 1) THEN f + 1 ELSE f)

\* a virtual size of 3 bytes got 2 address bits, and 2^2 > 3
C10_Witness ==
    /\ computed # NoComputed
    /\ mem_virt = 3
    /\ computed.virtual_address_bits = 2

====
